---- MODULE Spec2Model ----
(***************************************************************************)
(* PRCycleTime.py: a linear script that samples five pull-request metrics  *)
(* from a remote search-and-detail API.  Each metric is one loop            *)
(*     for pr in prs: if counter >= max_sample: break ; fetch ; accumulate *)
(* followed by a summary.  The model follows the script statement by       *)
(* statement; every remote call is a step of its own that either returns   *)
(* data chosen by the remote or raises.                                    *)
(*                                                                         *)
(* Scaling: the script's caps (500/300/300/300/200) and its progress       *)
(* interval (50) are scaled down to the bounds below; the remote returns   *)
(* at most MaxItems search results per query and MaxTotalItems over the    *)
(* whole run.                                                              *)
(***************************************************************************)
EXTENDS Integers, Sequences, FiniteSets, TLC

\* ---------------------------------------------------------------- bounds
MaxItems == 3
MaxTotalItems == 6
MaxSampleCycle == 2
MaxSampleResponse == 2
MaxSampleIteration == 2
MaxSampleCoverage == 2
MaxSampleDepth == 2
ProgressInterval == 2
MaxReviews == 2
MaxCommits == 2
MaxCommentCount == 1

\* ------------------------------------------------------ program constants
SecondsPerHour == 3600
SecondsPerDay == 86400

VARIABLES
    pc,                      \* position of the script
    metric,                  \* which of the five metric blocks is running
    error,                   \* the uncaught exception that ended the run
    delivered,               \* items yielded so far by the iterator `prs`, each
                             \* with the observation the loop took from it
    served,                  \* search results the remote has served this run
    requests,                \* remote calls issued in the current block, by kind
    pr_obj, comments, reviews,
    cycle_times, response_times, iteration_counts,
    count, max_sample,
    multiple_reviewer_count, total_sampled,
    total_comments, total_prs,
    review_coverage, avg_comments,
    output                   \* lines printed so far

vars == <<pc, metric, error, delivered, served, requests, pr_obj, comments, reviews,
          cycle_times, response_times, iteration_counts, count, max_sample,
          multiple_reviewer_count, total_sampled, total_comments, total_prs,
          review_coverage, avg_comments, output>>

\* Python's None and a present value, as a sequence of length 0 or 1.
None == <<>>
Some(x) == <<x>>

Metrics == <<"cycle", "response", "iteration", "coverage", "depth">>
MetricSet == {Metrics[i] : i \in 1..Len(Metrics)}
ListMetrics == {"cycle", "response", "iteration"}
CountAllMetrics == {"response", "iteration", "coverage", "depth"}

MetricIndex(m) == CHOOSE i \in 1..Len(Metrics) : Metrics[i] = m

MaxSampleOf(m) ==
    CASE m = "cycle" -> MaxSampleCycle
      [] m = "response" -> MaxSampleResponse
      [] m = "iteration" -> MaxSampleIteration
      [] m = "coverage" -> MaxSampleCoverage
      [] m = "depth" -> MaxSampleDepth

\* ------------------------------------------------------------ remote data
\* Timestamps are seconds; the remote's clock is sampled at a few instants.
CreatedAt == 0
MergeTimes == {SecondsPerHour, SecondsPerDay + SecondsPerHour}
ResponseInstants == {CreatedAt, SecondsPerHour, 2 * SecondsPerHour}
Logins == {"a", "b"}

NoPR == [created_at |-> CreatedAt, merged_at |-> None, commits |-> 0,
         comments |-> 0, review_comments |-> 0]

\* The detail record get_pull may return, restricted to the fields the
\* running block reads (the other fields keep NoPR's value).
PullData(m) ==
    CASE m = "cycle" ->
           {[NoPR EXCEPT !.merged_at = x] :
               x \in {None} \cup {Some(t) : t \in MergeTimes}}
      [] m = "iteration" ->
           {[NoPR EXCEPT !.commits = c] : c \in 1..MaxCommits}
      [] m = "depth" ->
           {[NoPR EXCEPT !.comments = c, !.review_comments = r] :
               c \in 0..MaxCommentCount, r \in 0..MaxCommentCount}
      [] OTHER -> {NoPR}

\* Issue comments arrive oldest first; the block reads only the first.
CommentLists == {<<>>} \cup {<<[created_at |-> t]>> : t \in ResponseInstants}

Review(u, t) == [user |-> u, submitted_at |-> t]

SeqsUpTo(S, n) == UNION {[1..k -> S] : k \in 0..n}

ReviewLists(m) ==
    IF m = "response"
    THEN {<<>>} \cup {<<Review(Some("a"), t)>> : t \in ResponseInstants}
    ELSE SeqsUpTo({Review(u, CreatedAt) :
                      u \in {None} \cup {Some(l) : l \in Logins}}, MaxReviews)

\* ---------------------------------------------------------------- output
Header(m) == [kind |-> "header", metric |-> m, n |-> 0]
Progress(m, n) == [kind |-> "progress", metric |-> m, n |-> n]
Summary(m, n) == [kind |-> "summary", metric |-> m, n |-> n]
Footer == [kind |-> "footer", metric |-> "depth", n |-> 0]

\* ------------------------------------------------------------- helpers
NoRequests == [search |-> 0, get_pull |-> 0, get_issue_comments |-> 0,
               get_reviews |-> 0]

Unfetched == [fetched |-> FALSE, obs |-> None]

\* The last delivered item has been processed, yielding observation o.
MarkProcessed(d, o) == [d EXCEPT ![Len(d)] = [fetched |-> TRUE, obs |-> o]]

\* `if counter >= max_sample: break`
CapReachedStrict(counter, cap) == counter > cap
CapReached(counter, cap) == counter >= cap

\* `if counter % 50 == 0: print(...)`
ProgressDue(counter) == counter % ProgressInterval = 0

Report(out, m, counter) ==
    IF ProgressDue(counter) THEN Append(out, Progress(m, counter)) ELSE out

\* `list.append(x)`
AccumulateFront(list, x) == <<x>> \o list
Accumulate(list, x) == Append(list, x)

\* lines 38-41: `count += 1` sits inside `if pr_obj.merged_at:`.
CycleCounterEveryItem(c, merged) == c + 1
CycleCounter(c, merged) == IF merged THEN c + 1 ELSE c

\* lines 81-85: `count += 1` sits after, not inside, `if first_response ...`.
ResponseCounterOnlyIncluded(c, included) == IF included THEN c + 1 ELSE c
ResponseCounter(c, included) == c + 1

\* timedelta.days: whole days, rounded down.
Days(later, earlier) == (later - earlier) \div SecondsPerDay

\* timedelta.total_seconds() / 3600 (exact here: instants are whole hours).
Hours(later, earlier) == (later - earlier) \div SecondsPerHour

\* lines 67-79: the first comment, replaced by the first review when there
\* is no comment or the review is earlier.
FirstResponseCommentWins(cs, rs) ==
    IF cs # <<>> THEN Some(cs[1].created_at)
    ELSE IF rs # <<>> THEN Some(rs[1].submitted_at) ELSE None
FirstResponse(cs, rs) ==
    LET afterComments == IF cs # <<>> THEN Some(cs[1].created_at) ELSE None
    IN  IF rs # <<>>
        THEN IF afterComments = None \/ rs[1].submitted_at < afterComments[1]
             THEN Some(rs[1].submitted_at)
             ELSE afterComments
        ELSE afterComments

\* `if first_response and first_response > pr_obj.created_at`
HasResponse(fr, created) == fr # None /\ fr[1] > created

\* lines 135-138: the set of logins of the reviews that have a user.
Reviewers(rs) == {rs[i].user[1] : i \in {j \in 1..Len(rs) : rs[j].user # None}}

\* `if len(reviewers) >= 2`
MultipleReviews(rs) == Len(rs) >= 2
MultipleReviewers(rs) == Cardinality(Reviewers(rs)) >= 2

\* A quotient x / y of the script, kept exact as numerator and denominator.
Ratio(x, y) == [num |-> x, den |-> y]
NoRatio == Ratio(0, 0)

\* `(multiple_reviewer_count / total_sampled) * 100`
Percentage(k, t) == Ratio(k * 100, t)

\* Python raises ZeroDivisionError on a zero divisor.
DivisionAlwaysDefined(divisor) == TRUE
DivisionDefined(divisor) == divisor # 0

\* `if cycle_times:` and its two siblings
SummaryGuard(list) == list # <<>>

\* No try/except anywhere: an exception raised at position p ends the run.
OnFailureSalvage(p) == "summary"
OnFailure(p) == "crashed"

\* ------------------------------------------------------------------ Init
Init ==
    /\ pc = "start"
    /\ metric = "cycle"
    /\ error = "none"
    /\ delivered = <<>>
    /\ served = 0
    /\ requests = NoRequests
    /\ pr_obj = NoPR
    /\ comments = <<>>
    /\ reviews = <<>>
    /\ cycle_times = <<>>
    /\ response_times = <<>>
    /\ iteration_counts = <<>>
    /\ count = 0
    /\ max_sample = 0
    /\ multiple_reviewer_count = 0
    /\ total_sampled = 0
    /\ total_comments = 0
    /\ total_prs = 0
    /\ review_coverage = NoRatio
    /\ avg_comments = NoRatio
    /\ output = <<>>

\* The counter the running block compares against max_sample.
Counter ==
    CASE metric \in ListMetrics -> count
      [] metric = "coverage" -> total_sampled
      [] metric = "depth" -> total_prs

\* -------------------------------------------------------------- actions
\* The block's preamble: header line, search_issues (lazy: no request yet),
\* and the initialisation of its accumulators.
Start ==
    /\ pc = "start"
    /\ output' = Append(output, Header(metric))
    /\ delivered' = <<>>
    /\ requests' = NoRequests
    /\ max_sample' = MaxSampleOf(metric)
    /\ cycle_times' = IF metric = "cycle" THEN <<>> ELSE cycle_times
    /\ response_times' = IF metric = "response" THEN <<>> ELSE response_times
    /\ iteration_counts' = IF metric = "iteration" THEN <<>> ELSE iteration_counts
    /\ count' = IF metric \in ListMetrics THEN 0 ELSE count
    /\ multiple_reviewer_count' =
          IF metric = "coverage" THEN 0 ELSE multiple_reviewer_count
    /\ total_sampled' = IF metric = "coverage" THEN 0 ELSE total_sampled
    /\ total_comments' = IF metric = "depth" THEN 0 ELSE total_comments
    /\ total_prs' = IF metric = "depth" THEN 0 ELSE total_prs
    /\ pc' = "pull"
    /\ UNCHANGED <<metric, error, served, pr_obj, comments, reviews,
                   review_coverage, avg_comments>>

LoopFrame ==
    UNCHANGED <<metric, cycle_times, response_times, iteration_counts, count,
                max_sample, multiple_reviewer_count, total_sampled,
                total_comments, total_prs, review_coverage, avg_comments,
                output>>

\* `for pr in prs`: the iterator yields the next search result.
PullItem ==
    /\ pc = "pull"
    /\ Len(delivered) < MaxItems
    /\ served < MaxTotalItems
    /\ delivered' = Append(delivered, Unfetched)
    /\ served' = served + 1
    /\ requests' = [requests EXCEPT !.search = @ + 1]
    /\ pc' = "cap"
    /\ UNCHANGED <<error, pr_obj, comments, reviews>>
    /\ LoopFrame

\* `for pr in prs`: the iterator is exhausted.
PullExhausted ==
    /\ pc = "pull"
    /\ requests' = [requests EXCEPT !.search = @ + 1]
    /\ pc' = "summary"
    /\ UNCHANGED <<error, delivered, served, pr_obj, comments, reviews>>
    /\ LoopFrame

\* `if counter >= max_sample: break`
CapBreak ==
    /\ pc = "cap"
    /\ CapReached(Counter, max_sample)
    /\ pc' = "summary"
    /\ UNCHANGED <<error, delivered, served, requests, pr_obj, comments, reviews>>
    /\ LoopFrame

CapPass ==
    /\ pc = "cap"
    /\ ~CapReached(Counter, max_sample)
    /\ pc' = "detail"
    /\ UNCHANGED <<error, delivered, served, requests, pr_obj, comments, reviews>>
    /\ LoopFrame

\* `pr_obj = repo.get_pull(pr.number)`
GetPull ==
    /\ pc = "detail"
    /\ \E d \in PullData(metric) : pr_obj' = d
    /\ requests' = [requests EXCEPT !.get_pull = @ + 1]
    /\ pc' = CASE metric = "response" -> "comments"
               [] metric = "coverage" -> "reviews"
               [] OTHER -> "process"
    /\ UNCHANGED <<error, delivered, served, comments, reviews>>
    /\ LoopFrame

\* `comments = list(pr_obj.get_issue_comments())`
GetIssueComments ==
    /\ pc = "comments"
    /\ \E cs \in CommentLists : comments' = cs
    /\ requests' = [requests EXCEPT !.get_issue_comments = @ + 1]
    /\ pc' = "reviews"
    /\ UNCHANGED <<error, delivered, served, pr_obj, reviews>>
    /\ LoopFrame

\* `pr_obj.get_reviews()`
GetReviews ==
    /\ pc = "reviews"
    /\ \E rs \in ReviewLists(metric) : reviews' = rs
    /\ requests' = [requests EXCEPT !.get_reviews = @ + 1]
    /\ pc' = "process"
    /\ UNCHANGED <<error, delivered, served, pr_obj, comments>>
    /\ LoopFrame

\* Any of the remote calls raises instead of returning.
RemoteFailure ==
    /\ pc \in {"pull", "detail", "comments", "reviews"}
    /\ requests' =
          CASE pc = "pull" -> [requests EXCEPT !.search = @ + 1]
            [] pc = "detail" -> [requests EXCEPT !.get_pull = @ + 1]
            [] pc = "comments" -> [requests EXCEPT !.get_issue_comments = @ + 1]
            [] pc = "reviews" -> [requests EXCEPT !.get_reviews = @ + 1]
    /\ error' = "RemoteFetchError"
    /\ pc' = OnFailure(pc)
    /\ UNCHANGED <<delivered, served, pr_obj, comments, reviews>>
    /\ LoopFrame

\* The loop-local names are rebound before they are read again.
EndIteration ==
    /\ pc' = "pull"
    /\ pr_obj' = NoPR
    /\ comments' = <<>>
    /\ reviews' = <<>>
    /\ UNCHANGED <<metric, error, served, requests, max_sample,
                   review_coverage, avg_comments>>

\* lines 38-44
ProcessCycleTime ==
    /\ pc = "process" /\ metric = "cycle"
    /\ LET merged == pr_obj.merged_at # None
           cycle_time == Days(pr_obj.merged_at[1], pr_obj.created_at)
           newCount == CycleCounter(count, merged)
       IN  /\ cycle_times' =
                 IF merged THEN Accumulate(cycle_times, cycle_time)
                 ELSE cycle_times
           /\ count' = newCount
           /\ output' = Report(output, metric, newCount)
           /\ delivered' = MarkProcessed(delivered,
                 IF merged THEN Some(cycle_time) ELSE None)
    /\ EndIteration
    /\ UNCHANGED <<response_times, iteration_counts, multiple_reviewer_count,
                   total_sampled, total_comments, total_prs>>

\* lines 67-87
ProcessResponseTime ==
    /\ pc = "process" /\ metric = "response"
    /\ LET first_response == FirstResponse(comments, reviews)
           included == HasResponse(first_response, pr_obj.created_at)
           response_time == Hours(first_response[1], pr_obj.created_at)
       IN  /\ response_times' =
                 IF included THEN Accumulate(response_times, response_time)
                 ELSE response_times
           /\ delivered' = MarkProcessed(delivered,
                 IF included THEN Some(response_time) ELSE None)
           /\ count' = ResponseCounter(count, included)
           /\ output' = Report(output, metric, ResponseCounter(count, included))
    /\ EndIteration
    /\ UNCHANGED <<cycle_times, iteration_counts, multiple_reviewer_count,
                   total_sampled, total_comments, total_prs>>

\* lines 109-113
ProcessIterationCount ==
    /\ pc = "process" /\ metric = "iteration"
    /\ iteration_counts' = Accumulate(iteration_counts, pr_obj.commits)
    /\ delivered' = MarkProcessed(delivered, Some(pr_obj.commits))
    /\ count' = count + 1
    /\ output' = Report(output, metric, count + 1)
    /\ EndIteration
    /\ UNCHANGED <<cycle_times, response_times, multiple_reviewer_count,
                   total_sampled, total_comments, total_prs>>

\* lines 135-145
ProcessReviewCoverage ==
    /\ pc = "process" /\ metric = "coverage"
    /\ LET multiple == MultipleReviewers(reviews)
       IN  /\ multiple_reviewer_count' =
                 IF multiple THEN multiple_reviewer_count + 1
                 ELSE multiple_reviewer_count
           /\ delivered' = MarkProcessed(delivered,
                 Some(IF multiple THEN 1 ELSE 0))
    /\ total_sampled' = total_sampled + 1
    /\ output' = Report(output, metric, total_sampled + 1)
    /\ EndIteration
    /\ UNCHANGED <<cycle_times, response_times, iteration_counts, count,
                   total_comments, total_prs>>

\* lines 167-171
ProcessCommentDepth ==
    /\ pc = "process" /\ metric = "depth"
    /\ total_comments' = total_comments + pr_obj.comments + pr_obj.review_comments
    /\ delivered' = MarkProcessed(delivered,
          Some(pr_obj.comments + pr_obj.review_comments))
    /\ total_prs' = total_prs + 1
    /\ output' = Report(output, metric, total_prs + 1)
    /\ EndIteration
    /\ UNCHANGED <<cycle_times, response_times, iteration_counts, count,
                   multiple_reviewer_count, total_sampled>>

SummaryFrame ==
    UNCHANGED <<delivered, served, requests, pr_obj, comments, reviews, cycle_times,
                response_times, iteration_counts, count, max_sample,
                multiple_reviewer_count, total_sampled, total_comments,
                total_prs>>

ObservationsOf(m) ==
    CASE m = "cycle" -> cycle_times
      [] m = "response" -> response_times
      [] m = "iteration" -> iteration_counts

\* lines 46-49, 89-91, 115-117: the guarded summaries of the list metrics.
SummaryList ==
    /\ pc = "summary" /\ metric \in ListMetrics
    /\ output' =
          IF SummaryGuard(ObservationsOf(metric))
          THEN Append(output, Summary(metric, Len(ObservationsOf(metric))))
          ELSE output
    /\ metric' = Metrics[MetricIndex(metric) + 1]
    /\ pc' = "start"
    /\ UNCHANGED <<error, review_coverage, avg_comments>>
    /\ SummaryFrame

\* lines 147-149
SummaryReviewCoverage ==
    /\ pc = "summary" /\ metric = "coverage"
    /\ IF DivisionDefined(total_sampled)
       THEN /\ review_coverage' =
                  Percentage(multiple_reviewer_count, total_sampled)
            /\ output' = Append(output, Summary(metric, total_sampled))
            /\ metric' = "depth"
            /\ pc' = "start"
            /\ error' = error
       ELSE /\ error' = "ZeroDivisionError"
            /\ pc' = "crashed"
            /\ UNCHANGED <<review_coverage, output, metric>>
    /\ avg_comments' = avg_comments
    /\ SummaryFrame

\* lines 173-178
SummaryCommentDepth ==
    /\ pc = "summary" /\ metric = "depth"
    /\ IF DivisionDefined(total_prs)
       THEN /\ avg_comments' = Ratio(total_comments, total_prs)
            /\ output' = Append(Append(output, Summary(metric, total_prs)), Footer)
            /\ pc' = "done"
            /\ error' = error
       ELSE /\ error' = "ZeroDivisionError"
            /\ pc' = "crashed"
            /\ UNCHANGED <<avg_comments, output>>
    /\ UNCHANGED <<metric, review_coverage>>
    /\ SummaryFrame

Next ==
    \/ Start
    \/ PullItem
    \/ PullExhausted
    \/ CapBreak
    \/ CapPass
    \/ GetPull
    \/ GetIssueComments
    \/ GetReviews
    \/ RemoteFailure
    \/ ProcessCycleTime
    \/ ProcessResponseTime
    \/ ProcessIterationCount
    \/ ProcessReviewCoverage
    \/ ProcessCommentDepth
    \/ SummaryList
    \/ SummaryReviewCoverage
    \/ SummaryCommentDepth

Spec == Init /\ [][Next]_vars

\* ------------------------------------------------------ claim vocabulary
LoopPositions == {"pull", "cap", "detail", "comments", "reviews", "process"}
InLoop == pc \in LoopPositions
InBlock == pc \in LoopPositions \cup {"summary"}

\* Block m has run to the end of its summary without an exception.
SummaryPassed(m) == pc = "done" \/ MetricIndex(metric) > MetricIndex(m)

HasSummaryLine(m) ==
    \E i \in 1..Len(output) : output[i].kind = "summary" /\ output[i].metric = m

NumProcessed(d) == Cardinality({i \in 1..Len(d) : d[i].fetched})

HasObs(e) == e.obs # None
ObsValue(e) == e.obs[1]

\* The observations of the delivered items, in delivery order.
ObsList(d) ==
    LET kept == SelectSeq(d, HasObs)
    IN  [i \in 1..Len(kept) |-> ObsValue(kept[i])]

\* Position in d of its n-th item that yielded an observation (0 if none).
PosNthObs(d, n) ==
    LET S == {i \in 1..Len(d) :
                 Cardinality({j \in 1..i : HasObs(d[j])}) = n /\ HasObs(d[i])}
    IN  IF S = {} THEN 0 ELSE CHOOSE i \in S : TRUE

ZeroObservations(m) ==
    CASE m \in ListMetrics -> ObservationsOf(m) = <<>>
      [] m = "coverage" -> total_sampled = 0
      [] m = "depth" -> total_prs = 0

\* --------------------------------------------------------------- C1
\* C1 as stated: in every state of each of the five loops the counter
\* compared against the cap equals the number of observations accumulated so
\* far for that metric and never exceeds max_sample.
C1_CounterEqualsObservations ==
    InBlock =>
        /\ Counter <= max_sample
        /\ Counter = (IF metric \in ListMetrics
                      THEN Len(ObservationsOf(metric))
                      ELSE NumProcessed(delivered))

\* C1 amended: the counter never exceeds max_sample in any of the five
\* loops; it equals the number of observations in the cycle-time,
\* iteration-count, review-coverage and comment-depth loops, while in the
\* response-time loop it equals the number of items processed and
\* response_times holds at most that many observations.
C1_CounterBounded ==
    InBlock =>
        /\ Counter <= max_sample
        /\ max_sample = MaxSampleOf(metric)
        /\ IF metric = "response"
           THEN /\ count = NumProcessed(delivered)
                /\ Len(response_times) <= count
                /\ Len(response_times) = Len(ObsList(delivered))
           ELSE Counter = (IF metric \in ListMetrics
                           THEN Len(ObservationsOf(metric))
                           ELSE NumProcessed(delivered))

C1_Witness ==
    /\ metric = "response" /\ pc = "summary"
    /\ count = max_sample
    /\ Len(response_times) < count

\* --------------------------------------------------------------- C2
\* C2 as stated: in the cycle-time loop the final count equals the number of
\* observations the result yielded, and once count has reached max_sample
\* no further item is requested from the search iterator.
C2_NoRequestAfterCap ==
    [][(metric = "cycle" /\ InLoop) =>
          /\ pc' = "summary" => count' = Len(ObsList(delivered'))
          /\ count = max_sample => requests'.search = requests.search]_vars

\* C2 amended: in the cycle-time loop the final count equals the number N of
\* observations (N <= max_sample); once count has reached max_sample the
\* iterator is asked for one more item (the `for` advances before the cap
\* test) and for no more than one, and no detail record is fetched for it.
C2_OneRequestAfterCap ==
    (metric = "cycle" /\ InBlock) =>
        LET P == PosNthObs(delivered, max_sample)
        IN  /\ count = Len(ObsList(delivered))
            /\ count = Len(cycle_times)
            /\ count <= max_sample
            /\ count = max_sample =>
                  /\ requests.search <= P + 1
                  /\ requests.get_pull = P
                  /\ pc = "summary" => requests.search = P + 1
            /\ (count < max_sample /\ pc = "summary") =>
                  requests.search = Len(delivered) + 1

C2_Witness ==
    /\ metric = "cycle" /\ pc = "summary"
    /\ count = max_sample
    /\ Len(delivered) = MaxItems
    /\ ~delivered[Len(delivered)].fetched
    /\ requests.search = Len(delivered)
    /\ requests.get_pull = max_sample

C4_FailFast ==
    /\ error = "RemoteFetchError" =>
          /\ pc = "crashed"
          /\ ~HasSummaryLine(metric)
          /\ \A i \in 1..Len(output) :
                MetricIndex(output[i].metric) <= MetricIndex(metric)
    /\ \A m \in MetricSet :
          HasSummaryLine(m) => (SummaryPassed(m) /\ ~ZeroObservations(m))

C4_Witness ==
    /\ error = "RemoteFetchError" /\ metric = "response"
    /\ response_times # <<>>
    /\ HasSummaryLine("cycle")
    /\ requests.get_reviews = 2

\* --------------------------------------------------------------- C5
\* C5: in the three list-accumulating loops the observation list is, at
\* every step, the observations of the items delivered so far taken in
\* delivery order (hence a subsequence of them: nothing is reordered,
\* removed or deduplicated).
C5_DeliveryOrder ==
    (metric \in ListMetrics /\ pc \in LoopPositions \cup {"summary", "crashed"})
        => ObservationsOf(metric) = ObsList(delivered)

C5_Witness ==
    /\ metric = "cycle" /\ pc = "pull"
    /\ Len(delivered) = 3
    /\ cycle_times = <<1, 0>>
    /\ delivered[2].fetched /\ ~HasObs(delivered[2])

\* --------------------------------------------------------------- C6
\* C6: in each loop an iteration prints exactly one progress line when it
\* brings the counter to a positive multiple of the interval, and prints
\* nothing otherwise (nothing while the counter is 0, no repeat for a value).
C6_ProgressOnlyOnMultiples ==
    [][pc = "process" =>
          output' = IF /\ Counter' # Counter
                       /\ Counter' > 0
                       /\ Counter' % ProgressInterval = 0
                    THEN Append(output, Progress(metric, Counter'))
                    ELSE output]_vars

\* --------------------------------------------------------------- C7
FirstTimes(cs, rs) ==
    {cs[i].created_at : i \in {1} \cap DOMAIN cs}
        \cup {rs[i].submitted_at : i \in {1} \cap DOMAIN rs}

Earliest(S) == CHOOSE t \in S : \A u \in S : t <= u

DistinctLogins(rs) ==
    {l \in Logins : \E i \in 1..Len(rs) : rs[i].user = <<l>>}

\* C8: in the review-coverage block K counts the processed items with at
\* least two distinct non-null reviewer logins, 0 <= K <= T <= max_sample,
\* and with T > 0 the reported percentage is 100 * K / T.
C8_ReviewCoverage ==
    /\ []((metric = "coverage" /\ InBlock) =>
            /\ 0 <= multiple_reviewer_count
            /\ multiple_reviewer_count <= total_sampled
            /\ total_sampled <= max_sample
            /\ total_sampled = NumProcessed(delivered))
    /\ [][(metric = "coverage" /\ pc = "process") =>
            multiple_reviewer_count' = multiple_reviewer_count +
                (IF Cardinality(DistinctLogins(reviews)) >= 2 THEN 1 ELSE 0)]_vars
    /\ [][(metric = "coverage" /\ pc = "summary" /\ total_sampled > 0) =>
            /\ review_coverage'.den # 0
            /\ review_coverage'.num * total_sampled =
                  100 * multiple_reviewer_count * review_coverage'.den]_vars

C8_Witness ==
    /\ metric = "depth"
    /\ multiple_reviewer_count = 1 /\ total_sampled = 2
    /\ review_coverage.num = 50 * review_coverage.den

\* --------------------------------------------------------------- C9
\* C9: in the cycle-time loop an item without merged_at leaves count and
\* cycle_times unchanged and an item with merged_at adds one to both; in the
\* other four loops every processed item adds exactly one to the counter,
\* whether or not it contributed an observation.
C9_CountingPolicies ==
    [][pc = "process" =>
          IF metric = "cycle"
          THEN IF pr_obj.merged_at = None
               THEN count' = count /\ cycle_times' = cycle_times
               ELSE count' = count + 1 /\ Len(cycle_times') = Len(cycle_times) + 1
          ELSE Counter' = Counter + 1]_vars

C9_Witness ==
    /\ metric = "response" /\ pc = "pull"
    /\ count = 1 /\ response_times = <<>>
    /\ \E i \in 1..Len(output) : output[i] = Progress("cycle", 0)

\* --------------------------------------------------------------- C10
\* C10: the cap is tested after an item is pulled and before it is
\* processed: with the counter at max_sample at most one more item is
\* pulled, nothing is fetched for it and the loop ends; in the
\* count-all-attempted loops each kind of per-item fetch is issued at most
\* max_sample times.
C10_CapCheckOrdering ==
    /\ []((InBlock /\ metric \in CountAllMetrics) =>
            /\ requests.get_pull <= max_sample
            /\ requests.get_issue_comments <= max_sample
            /\ requests.get_reviews <= max_sample)
    /\ []((InBlock) => Len(delivered) <= requests.get_pull + 1)
    /\ [][(InLoop /\ Counter >= max_sample) =>
            /\ requests'.get_pull = requests.get_pull
            /\ requests'.get_issue_comments = requests.get_issue_comments
            /\ requests'.get_reviews = requests.get_reviews
            /\ pc \in {"pull", "cap"}
            /\ pc = "pull" => pc' \in {"cap", "summary", "crashed"}
            /\ pc = "cap" => (pc' = "summary" /\ requests' = requests)]_vars

C10_Witness ==
    /\ metric = "depth" /\ pc = "summary"
    /\ total_prs = max_sample
    /\ Len(delivered) = max_sample + 1
    /\ requests.get_pull = max_sample
    /\ requests.search = max_sample + 1

====
